---- MODULE Spec2Model ----
(***************************************************************************)
(* The UDP socket layer of w5500-hl (hl/src/udp.rs) over the W5500's       *)
(* socket registers.  Every driver call is a sequence of register accesses *)
(* (one step of the model per access); the chip appends received data      *)
(* between any two of them, and any access may fail with a transport       *)
(* error.                                                                  *)
(***************************************************************************)
EXTENDS Integers, Sequences, FiniteSets, TLC

\* ------------------------------------------------------------------ bounds
\* longest payload the chip delivers in one datagram
MaxLen == 2
\* datagrams the chip delivers in one run
MaxDatagrams == 2
\* longest ordinary caller buffer handed to udp_recv_from / udp_peek_from
MaxBuf == 2
\* bytes of TX buffer the socket has
TxSize == 3
\* Send commands the chip takes in one run
MaxSends == 2
\* reads of Sn_SR a udp_bind loop makes before the chip has to act
MaxPolls == 2

\* --------------------------------------------------------- program constants
\* UdpHeader::LEN
HeaderLen == 8
\* u16::MAX
U16Max == 65535
\* number of values of a u16 pointer register
U16Mod == 65536

\* the Sn_RX_RD values a run starts from: one far from, one just below the wrap
StartPtrs == {0, 65531}

\* who sends: an origin and the byte its payload starts with
Senders ==
    { [origin |-> [ip |-> <<203, 0, 113, 1>>, port |-> 9000], fill |-> 160],
      [origin |-> [ip |-> <<192, 0, 2, 1>>, port |-> 8081], fill |-> 176] }

\* caller buffer lengths: 0..MaxBuf and one that does not fit a u16
BufLens == (0 .. MaxBuf) \cup {U16Max + 1}

\* the Sn_RX_RD values a run starts from: with the second, the payload of the
\* first datagram lies across the wrap, or (after an empty datagram) the
\* header of the second
RxStartPtrs == {0, 65527}

VARIABLES
    rx_mem,      \* bytes the chip wrote into the RX buffer, from address rx_base on
    rx_base,     \* address of rx_mem[1]
    rx_dgrams,   \* the datagrams the chip delivered, in arrival order (history)
    sn_rx_rsr,   \* Sn_RX_RSR: received size register
    sn_rx_rd,    \* Sn_RX_RD: read pointer register
    rx_rd_chip,  \* the read pointer the chip took over at the last Recv command
    pc,          \* position of the driver in the current call
    loc,         \* locals of the current call (kept until the next call begins)
    reader,      \* the UdpReader of the current udp_reader scope
    trace,       \* register writes and commands of the current call
    ret,         \* result of the call that just ended
    prev,        \* result of the call before, when this call follows it up
    calm,        \* the chip changed nothing since the current call (or, in a
                 \* follow-up, the call before) began
    side,        \* the direction this run exercises: "rx" or "tx"
    tx_mem,      \* bytes the driver wrote into the TX buffer, from address tx_base on
    tx_base,     \* address of tx_mem[1]
    tx_sent,     \* the datagrams the chip was told to send, in order (history)
    sn_tx_fsr,   \* Sn_TX_FSR: free size register
    sn_tx_wr,    \* Sn_TX_WR: write pointer register
    tx_wr_chip,  \* the write pointer the chip took over at the last Send command
    sn_dest,     \* Sn_DIPR and Sn_DPORT: the destination
    writer,      \* the Writer of the current udp_writer scope
    sock,        \* Sn_SR, Sn_PORT, Sn_MR and the command the chip has yet to carry out
    failed       \* the transport failed an access of the current call

rxhw == <<rx_mem, rx_base, rx_dgrams, sn_rx_rsr, sn_rx_rd, rx_rd_chip>>

txhw == <<tx_mem, tx_base, tx_sent, sn_tx_fsr, sn_tx_wr, tx_wr_chip, sn_dest>>

hw == <<rxhw, txhw, side, sock>>

vars == <<hw, pc, loc, reader, writer, trace, ret, prev, calm, failed>>

\* ------------------------------------------------------------- arithmetic
Min(a, b) == IF a <= b THEN a ELSE b

\* an addition that does not wrap
WrappingAdd_NoWrap(a, b) == a + b

\* u16::wrapping_add
WrappingAdd(a, b) == (a + b) % U16Mod

\* u16::wrapping_sub
WrappingSub(a, b) == (a - b + U16Mod) % U16Mod

\* u16::from_be_bytes
FromBeBytes(hi, lo) == hi * 256 + lo

\* the two bytes of a u16, big-endian (what the chip writes)
ToBeBytes(v) == << v \div 256, v % 256 >>

\* buf.len().try_into().unwrap_or(u16::MAX)
LenAsU16(n) == IF n > U16Max THEN U16Max ELSE n

\* ---------------------------------------------------------------- header
\* UdpHeader::deser
Deser(buf) ==
    [ origin |-> [ ip |-> << buf[1], buf[2], buf[3], buf[4] >>,
                   port |-> FromBeBytes(buf[5], buf[6]) ],
      len |-> FromBeBytes(buf[7], buf[8]) ]

\* the 8 bytes the chip puts in front of a datagram
Ser(origin, len) == origin.ip \o ToBeBytes(origin.port) \o ToBeBytes(len)

\* the payload of a datagram of sender s: fill, fill + 1, ...
Payload(s, len) == [ i \in 1 .. len |-> (s.fill + i - 1) % 256 ]

NoHeader == [ origin |-> [ ip |-> <<0, 0, 0, 0>>, port |-> 0 ], len |-> 0 ]

\* no scope; of a scope, view is what lies between head_ptr and tail_ptr when
\* it opens
NoReader ==
    [ head_ptr |-> 0, tail_ptr |-> 0, ptr |-> 0, unread |-> FALSE,
      header |-> NoHeader, open |-> FALSE, view |-> <<>> ]

\* no scope
NoWriter ==
    [ head_ptr |-> 0, tail_ptr |-> 0, ptr |-> 0, abort |-> FALSE, open |-> FALSE ]

\* no destination set
NoDest == [ ip |-> <<0, 0, 0, 0>>, port |-> 0 ]

\* the local ports a caller binds to
Ports == {8080, 8081}

\* the socket before a udp_bind: closed, opened as a UDP socket or as a TCP
\* socket, no command pending
SockStates ==
    [ sr : {"Closed", "Udp", "Init"}, cr : {"none"}, port : {0, 8080},
      mr : {"Closed", "Tcp", "Udp"} ]

\* the socket between calls: opened as a UDP socket on port 8080, no command
\* pending
OpenedUdp == [ sr |-> "Udp", cr |-> "none", port |-> 8080, mr |-> "Udp" ]

\* the locals of a call; rd0 is Sn_RX_RD when the call began and avail the
\* Sn_RX_RSR it read (-1 before it did)
\* wr0 is Sn_TX_WR when the call began, dest the destination it was given
NoLoc ==
    [ op |-> "none", buflen |-> 0, rd0 |-> 0, avail |-> -1, rsr |-> 0, ptr |-> 0,
      header |-> NoHeader, read_size |-> 0, buf |-> <<>>,
      wr0 |-> 0, dest |-> NoDest, fsr |-> 0, tx_bytes |-> 0,
      port |-> 0, polls |-> 0 ]

\* no result; of a result, at is the step that returned it
NoRet ==
    [ op |-> "none", status |-> "none", at |-> "none", n |-> 0,
      origin |-> NoHeader.origin, len |-> 0, data |-> <<>>, scope |-> NoReader ]

\* ------------------------------------------------------------ RX hardware
\* the RX buffer byte at address a (0 where the chip wrote nothing)
RxByte(a) ==
    LET off == WrappingSub(a, rx_base)
    IN  IF off < Len(rx_mem) THEN rx_mem[off + 1] ELSE 0

\* Registers::sn_rx_buf: n bytes from address ptr on, wrapping
SnRxBuf(ptr, n) == [ i \in 1 .. n |-> RxByte(WrappingAdd(ptr, i - 1)) ]

\* the chip's write pointer, as far as Sn_RX_RSR counts what was written
RxWr == WrappingAdd(rx_rd_chip, sn_rx_rsr)

\* bytes in rx_mem the chip has not yet counted in Sn_RX_RSR
RxHidden == Len(rx_mem) - WrappingSub(RxWr, rx_base)

\* how much of an arriving datagram may be buffered when Sn_RX_RSR first
\* counts it: part of the header, the header, the header and part of the
\* payload, or all of it
Buffered(len) == {HeaderLen - 1} \cup (HeaderLen .. HeaderLen + len)

\* the chip delivers a datagram of sender s with len payload bytes: header and
\* payload go into the RX buffer, and Sn_RX_RSR grows by the vis bytes buffered
\* so far
ChipArrive(s, len, vis) ==
    /\ side = "rx"
    /\ pc # "done"
    /\ Len(rx_dgrams) < MaxDatagrams
    /\ RxHidden = 0
    /\ rx_mem' = rx_mem \o Ser(s.origin, len) \o Payload(s, len)
    /\ rx_dgrams' = Append(rx_dgrams,
                           [origin |-> s.origin, len |-> len, data |-> Payload(s, len)])
    /\ sn_rx_rsr' = sn_rx_rsr + vis
    /\ calm' = FALSE
    /\ prev' = NoRet
    /\ UNCHANGED <<rx_base, sn_rx_rd, rx_rd_chip, txhw, side, sock,
                   pc, loc, reader, writer, trace, ret, failed>>

\* the rest of a partially buffered datagram is buffered
ChipBuffered ==
    /\ side = "rx"
    /\ pc # "done"
    /\ RxHidden > 0
    /\ sn_rx_rsr' = sn_rx_rsr + RxHidden
    /\ calm' = FALSE
    /\ prev' = NoRet
    /\ UNCHANGED <<rx_mem, rx_base, rx_dgrams, sn_rx_rd, rx_rd_chip, txhw, side, sock,
                   pc, loc, reader, writer, trace, ret, failed>>

\* Registers::set_sn_rx_rd
SetSnRxRd(ptr) ==
    /\ sn_rx_rd' = ptr
    /\ trace' = Append(trace, <<"set_sn_rx_rd", ptr>>)
    /\ UNCHANGED <<rx_mem, rx_base, rx_dgrams, sn_rx_rsr, rx_rd_chip, txhw, side, sock>>

\* Registers::set_sn_cr(SocketCommand::Recv): the chip takes Sn_RX_RD over and
\* frees what lies before it
SetSnCrRecv ==
    /\ rx_rd_chip' = sn_rx_rd
    /\ sn_rx_rsr' = WrappingSub(RxWr, sn_rx_rd)
    /\ trace' = Append(trace, <<"set_sn_cr", "Recv">>)
    /\ UNCHANGED <<rx_mem, rx_base, rx_dgrams, sn_rx_rd, txhw, side, sock>>

\* ------------------------------------------------------------ TX hardware
\* mem with the bytes written from offset off on (0 where nothing was written)
Overwrite(mem, off, bytes) ==
    LET n == IF Len(mem) >= off + Len(bytes) THEN Len(mem) ELSE off + Len(bytes)
    IN  [ i \in 1 .. n |->
            IF i > off /\ i <= off + Len(bytes) THEN bytes[i - off]
            ELSE IF i <= Len(mem) THEN mem[i] ELSE 0 ]

\* the TX buffer byte at address a
TxByte(a) ==
    LET off == WrappingSub(a, tx_base)
    IN  IF off < Len(tx_mem) THEN tx_mem[off + 1] ELSE 0

\* n bytes of the TX buffer from address ptr on, wrapping
TxBuf(ptr, n) == [ i \in 1 .. n |-> TxByte(WrappingAdd(ptr, i - 1)) ]

\* Registers::set_sn_tx_buf
SetSnTxBuf(ptr, bytes) ==
    /\ tx_mem' = Overwrite(tx_mem, WrappingSub(ptr, tx_base), bytes)
    /\ trace' = Append(trace, <<"set_sn_tx_buf", ptr, bytes>>)
    /\ UNCHANGED <<rxhw, side, sock, tx_base, tx_sent, sn_tx_fsr, sn_tx_wr, tx_wr_chip, sn_dest>>

\* Registers::set_sn_tx_wr
SetSnTxWr(ptr) ==
    /\ sn_tx_wr' = ptr
    /\ trace' = Append(trace, <<"set_sn_tx_wr", ptr>>)
    /\ UNCHANGED <<rxhw, side, sock, tx_mem, tx_base, tx_sent, sn_tx_fsr, tx_wr_chip, sn_dest>>

\* Registers::set_sn_dest
SetSnDest(addr) ==
    /\ sn_dest' = addr
    /\ trace' = Append(trace, <<"set_sn_dest", addr>>)
    /\ UNCHANGED <<rxhw, side, sock, tx_mem, tx_base, tx_sent, sn_tx_fsr, sn_tx_wr, tx_wr_chip>>

\* Registers::set_sn_cr(SocketCommand::Send): the chip takes Sn_TX_WR over and
\* sends what lies before it to the destination
SetSnCrSend ==
    LET n == WrappingSub(sn_tx_wr, tx_wr_chip)
    IN  /\ tx_sent' = Append(tx_sent, [dest |-> sn_dest, data |-> TxBuf(tx_wr_chip, n)])
        /\ tx_wr_chip' = sn_tx_wr
        /\ sn_tx_fsr' = sn_tx_fsr - n
        /\ trace' = Append(trace, <<"set_sn_cr", "Send">>)
        /\ UNCHANGED <<rxhw, side, sock, tx_mem, tx_base, sn_tx_wr, sn_dest>>

\* the chip has sent what it was told to: the TX buffer is free again
ChipSent ==
    /\ side = "tx"
    /\ pc # "done"
    /\ sn_tx_fsr < TxSize
    /\ sn_tx_fsr' = TxSize
    /\ calm' = FALSE
    /\ prev' = NoRet
    /\ UNCHANGED <<rxhw, side, sock, tx_mem, tx_base, tx_sent, sn_tx_wr, tx_wr_chip, sn_dest,
                   pc, loc, reader, writer, trace, ret, failed>>

\* -------------------------------------------------------- socket lifecycle
\* Registers::set_sn_cr(SocketCommand::Close) and (SocketCommand::Open): the
\* chip carries the command out later
SetSnCr(cmd) ==
    /\ sock' = [sock EXCEPT !.cr = cmd]
    /\ trace' = Append(trace, <<"set_sn_cr", cmd>>)
    /\ UNCHANGED <<rxhw, txhw, side>>

\* Registers::set_sn_port
SetSnPort(port) ==
    /\ sock' = [sock EXCEPT !.port = port]
    /\ trace' = Append(trace, <<"set_sn_port", port>>)
    /\ UNCHANGED <<rxhw, txhw, side>>

\* Registers::set_sn_mr
SetSnMr(mode) ==
    /\ sock' = [sock EXCEPT !.mr = mode]
    /\ trace' = Append(trace, <<"set_sn_mr", mode>>)
    /\ UNCHANGED <<rxhw, txhw, side>>

\* the status an Open command leads to under the mode mr
OpenStatus(mr) ==
    IF mr = "Udp" THEN "Udp" ELSE IF mr = "Tcp" THEN "Init" ELSE "Closed"

\* the chip carries out the Close or Open command it was given
ChipCommand ==
    /\ pc # "done"
    /\ sock.cr # "none"
    /\ sock' = [sock EXCEPT !.cr = "none",
                            !.sr = IF sock.cr = "Close" THEN "Closed"
                                   ELSE OpenStatus(sock.mr)]
    /\ calm' = FALSE
    /\ prev' = NoRet
    /\ UNCHANGED <<rxhw, txhw, side, pc, loc, reader, writer, trace, ret, failed>>

\* ------------------------------------------------------------------ driver
\* the result of the current call: status, count, origin, header length, bytes
Result(status, n, origin, len, data) ==
    [ op |-> loc.op, status |-> status, at |-> pc, n |-> n, origin |-> origin,
      len |-> len, data |-> data, scope |-> reader ]

\* the call ends with result r
Return(r) ==
    /\ pc' = "done"
    /\ ret' = r
    /\ UNCHANGED <<prev, calm, failed>>

\* the call goes on at label l
Goto(l) ==
    /\ pc' = l
    /\ UNCHANGED <<ret, prev, calm, failed>>

\* a failed access that is made again
TransportError_Retry ==
    /\ failed' = TRUE
    /\ UNCHANGED <<hw, pc, loc, reader, writer, trace, ret, prev, calm>>

\* a register access fails: the `?` returns the transport's error at once
TransportError ==
    /\ failed' = TRUE
    /\ pc' = "done"
    /\ ret' = Result("Other", 0, NoHeader.origin, 0, <<>>)
    /\ UNCHANGED <<hw, writer, loc, reader, trace, prev, calm>>

\* the call of op with a buffer of buflen bytes follows the last call up: a
\* receive sized by the header just peeked, a second peek, a receive of what
\* was peeked, a second reader scope after one that was unread
FollowsUp(op, buflen) ==
    /\ calm
    /\ ret.status = "Ok"
    /\ \/ ret.op = "peek_header" /\ op = "recv" /\ buflen = ret.len
       \/ ret.op = "peek_header" /\ op = "peek_header"
       \/ ret.op = "peek" /\ op \in {"peek", "recv"} /\ buflen = loc.buflen
       \/ ret.op = "reader" /\ op = "reader" /\ ret.scope.unread

\* the caller takes the result of the call that ended; until it calls again
\* the driver is idle.  A transport error ends the run: the socket's registers
\* may be out of step with the chip, and the caller has to bind it again.
Idle ==
    /\ pc = "done"
    /\ ret.status # "Other"
    /\ pc' = "idle"
    /\ loc' = NoLoc
    /\ reader' = NoReader
    /\ writer' = NoWriter
    /\ trace' = <<>>
    /\ ret' = NoRet
    /\ prev' = NoRet
    /\ calm' = FALSE
    /\ UNCHANGED <<hw, failed>>

\* what a call is about: receiving, sending or binding
Side(op) ==
    IF op \in {"recv", "peek", "peek_header", "reader"} THEN "rx"
    ELSE IF op = "bind" THEN "bind" ELSE "tx"

\* the caller starts the call whose arguments the locals l hold, at the step
\* first: when idle, or right after the last call to follow it up
CallWith(first, l) ==
    /\ side = Side(l.op)
    /\ side = "tx" => Len(tx_sent) < MaxSends
    /\ pc = "idle" \/ (pc = "done" /\ FollowsUp(l.op, l.buflen))
    /\ pc' = first
    /\ loc' = [l EXCEPT !.rd0 = sn_rx_rd, !.wr0 = sn_tx_wr]
    /\ reader' = NoReader
    /\ writer' = NoWriter
    /\ trace' = <<>>
    /\ ret' = NoRet
    /\ prev' = IF pc = "done" THEN ret ELSE NoRet
    /\ calm' = TRUE
    /\ UNCHANGED <<hw, failed>>

\* a subtraction that wraps instead of reporting the underflow
CheckedSub_Wrapping(a, b) == << WrappingSub(a, b) >>

\* the caller starts a call of op with a buffer of buflen bytes and the
\* destination addr
CallTo(op, buflen, addr, first) ==
    CallWith(first, [NoLoc EXCEPT !.op = op, !.buflen = buflen, !.dest = addr])

\* the caller starts a call of op with a buffer of buflen bytes
Call(op, buflen, first) == CallTo(op, buflen, NoDest, first)

\* u16::checked_sub, None as the empty sequence
CheckedSub(a, b) == IF a >= b THEN <<a - b>> ELSE <<>>

\* the comparison made with the Sn_RX_RSR that still counts the header
NotAllBuffered_Raw(rsr, header) == rsr + HeaderLen < header.len

\* the comparison that also turns away a datagram that is exactly buffered
NotAllBuffered_Strict(rsr, header) == rsr <= header.len

\* rsr < header.len: not all data as indicated by the header has been buffered
NotAllBuffered(rsr, header) == rsr < header.len

\* min(header.len, buf.len().try_into().unwrap_or(u16::MAX))
ReadSize(header, buflen) == Min(header.len, LenAsU16(buflen))

\* a commit past the bytes copied only
RecvCommitPtr_Copied(ptr, header, read_size) == WrappingAdd(ptr, read_size)

\* the pointer udp_recv_from commits: past the whole datagram
RecvCommitPtr(ptr, header, read_size) == WrappingAdd(ptr, header.len)

\* the shared front of udp_recv_from and udp_peek_from: Sn_RX_RSR, the status
\* assertion of a debug build, Sn_RX_RD, the header, the payload copy
RecvFront(p, after) ==
    \/ /\ pc = p \o "_rsr"
       /\ \/ TransportError
          \/ LET r == CheckedSub(sn_rx_rsr, HeaderLen)
             IN  IF r = <<>>
                 THEN /\ Return(Result("WouldBlock", 0, NoHeader.origin, 0, <<>>))
                      /\ loc' = [loc EXCEPT !.avail = sn_rx_rsr]
                      /\ UNCHANGED <<hw, writer, reader, trace>>
                 ELSE /\ Goto(p \o "_sr")
                      /\ loc' = [loc EXCEPT !.avail = sn_rx_rsr, !.rsr = r[1]]
                      /\ UNCHANGED <<hw, writer, reader, trace>>
    \/ /\ pc = p \o "_sr"
       /\ \/ TransportError
          \/ /\ Goto(p \o "_rd")
             /\ UNCHANGED <<hw, writer, loc, reader, trace>>
    \/ /\ pc = p \o "_rd"
       /\ \/ TransportError
          \/ /\ Goto(p \o "_hdr")
             /\ loc' = [loc EXCEPT !.ptr = sn_rx_rd]
             /\ UNCHANGED <<hw, writer, reader, trace>>
    \/ /\ pc = p \o "_hdr"
       /\ \/ TransportError
          \/ LET header == Deser(SnRxBuf(loc.ptr, HeaderLen))
                 ptr == WrappingAdd(loc.ptr, HeaderLen)
                 read_size == ReadSize(header, loc.buflen)
             IN  IF NotAllBuffered(loc.rsr, header)
                 THEN /\ Return(Result("WouldBlock", 0, NoHeader.origin, 0, <<>>))
                      /\ loc' = [loc EXCEPT !.header = header, !.ptr = ptr]
                      /\ UNCHANGED <<hw, writer, reader, trace>>
                 ELSE /\ loc' = [loc EXCEPT !.header = header, !.ptr = ptr,
                                            !.read_size = read_size]
                      /\ Goto(IF read_size # 0 THEN p \o "_buf" ELSE after)
                      /\ UNCHANGED <<hw, writer, reader, trace>>
    \/ /\ pc = p \o "_buf"
       /\ \/ TransportError
          \/ /\ Goto(after)
             /\ loc' = [loc EXCEPT !.buf = SnRxBuf(loc.ptr, loc.read_size)]
             /\ UNCHANGED <<hw, writer, reader, trace>>

\* Udp::udp_recv_from
udp_recv_from ==
    \/ \E buflen \in BufLens : Call("recv", buflen, "recv_rsr")
    \/ RecvFront("recv", "recv_set_rd")
    \/ /\ pc = "recv_set_rd"
       /\ \/ TransportError
          \/ LET ptr == RecvCommitPtr(loc.ptr, loc.header, loc.read_size)
             IN  /\ SetSnRxRd(ptr)
                 /\ loc' = [loc EXCEPT !.ptr = ptr]
                 /\ Goto("recv_cr")
                 /\ UNCHANGED <<reader, writer>>
    \/ /\ pc = "recv_cr"
       /\ \/ TransportError
          \/ /\ SetSnCrRecv
             /\ Return(Result("Ok", loc.read_size, loc.header.origin, 0, loc.buf))
             /\ UNCHANGED <<loc, reader, writer>>

\* a peek that ends as udp_recv_from does, moving Sn_RX_RD past the datagram
PeekReturn_Consuming ==
    /\ SetSnRxRd(WrappingAdd(loc.ptr, loc.header.len))
    /\ Return(Result("Ok", loc.read_size, loc.header.origin, loc.header.len, loc.buf))
    /\ UNCHANGED <<loc, reader, writer>>

\* the end of udp_peek_from: Ok((read_size, header)), nothing written
PeekReturn ==
    /\ Return(Result("Ok", loc.read_size, loc.header.origin, loc.header.len, loc.buf))
    /\ UNCHANGED <<hw, writer, loc, reader, trace>>

\* Udp::udp_peek_from
udp_peek_from ==
    \/ \E buflen \in BufLens : Call("peek", buflen, "peek_rsr")
    \/ RecvFront("peek", "peek_ok")
    \/ /\ pc = "peek_ok"
       /\ PeekReturn

\* rsr < UdpHeader::LEN: nothing to receive
NoHeaderBuffered(rsr) == rsr < HeaderLen

\* Udp::udp_peek_from_header
udp_peek_from_header ==
    \/ Call("peek_header", 0, "peekh_rsr")
    \/ /\ pc = "peekh_rsr"
       /\ \/ TransportError
          \/ IF NoHeaderBuffered(sn_rx_rsr)
             THEN /\ Return(Result("WouldBlock", 0, NoHeader.origin, 0, <<>>))
                  /\ loc' = [loc EXCEPT !.avail = sn_rx_rsr]
                  /\ UNCHANGED <<hw, writer, reader, trace>>
             ELSE /\ Goto("peekh_sr")
                  /\ loc' = [loc EXCEPT !.avail = sn_rx_rsr, !.rsr = sn_rx_rsr]
                  /\ UNCHANGED <<hw, writer, reader, trace>>
    \/ /\ pc = "peekh_sr"
       /\ \/ TransportError
          \/ /\ Goto("peekh_rd")
             /\ UNCHANGED <<hw, writer, loc, reader, trace>>
    \/ /\ pc = "peekh_rd"
       /\ \/ TransportError
          \/ /\ Goto("peekh_hdr")
             /\ loc' = [loc EXCEPT !.ptr = sn_rx_rd]
             /\ UNCHANGED <<hw, writer, reader, trace>>
    \/ /\ pc = "peekh_hdr"
       /\ \/ TransportError
          \/ LET header == Deser(SnRxBuf(loc.ptr, HeaderLen))
             IN  /\ Return(Result("Ok", 0, header.origin, header.len, <<>>))
                 /\ loc' = [loc EXCEPT !.header = header]
                 /\ UNCHANGED <<hw, writer, reader, trace>>

\* -------------------------------------------------------------- UdpReader
\* Seek::remain: bytes left between ptr and tail_ptr
Remain(r) == WrappingSub(r.tail_ptr, r.ptr)

\* Seek::stream_len: bytes between head_ptr and tail_ptr
StreamLen(r) == WrappingSub(r.tail_ptr, r.head_ptr)

\* Seek::stream_position: bytes between head_ptr and ptr
StreamPosition(r) == WrappingSub(r.ptr, r.head_ptr)

\* the bytes Read::read copies into a buffer of n bytes: min(n, remain) bytes
\* from ptr on
ReaderReadBytes(r, n) == SnRxBuf(r.ptr, Min(n, Remain(r)))

\* a read that moves ptr by the length of the buffer
ReaderRead_Unclamped(r, n) == [r EXCEPT !.ptr = WrappingAdd(r.ptr, n)]

\* Read::read into a buffer of n bytes: ptr moves past the bytes copied
ReaderRead(r, n) ==
    [r EXCEPT !.ptr = WrappingAdd(r.ptr, Len(ReaderReadBytes(r, n)))]

\* Seek::seek(SeekFrom::Start(n)): rejected beyond the end of the scope
ReaderSeek(r, n) ==
    IF n > StreamLen(r) THEN r ELSE [r EXCEPT !.ptr = WrappingAdd(r.head_ptr, n)]

\* Read::read_exact into a buffer of n bytes succeeds
ReadExactOk(r, n) == n <= Remain(r)

\* a read_exact that takes what is left when that is less than the buffer
ReaderReadExact_Partial(r, n) == ReaderRead(r, n)

\* Read::read_exact into a buffer of n bytes: all n bytes or, when fewer
\* remain, none
ReaderReadExact(r, n) == IF ReadExactOk(r, n) THEN ReaderRead(r, n) ELSE r

\* the positions a caller seeks to: SeekFrom::Start, ::End, ::Current
SeekFroms ==
    [ from : {"Start"}, off : 0 .. MaxLen + 1 ]
    \cup [ from : {"End", "Current"}, off : -(MaxLen + 1) .. 1 ]

\* where a seek to pos leads, counted from head_ptr; outside 0 .. stream_len
\* it fails
SeekPosition(r, pos) ==
    CASE pos.from = "Start" -> pos.off
      [] pos.from = "End" -> StreamLen(r) + pos.off
      [] OTHER -> StreamPosition(r) + pos.off

\* Seek::seek succeeds
SeekOk(r, pos) == SeekPosition(r, pos) \in 0 .. StreamLen(r)

\* Seek::seek: ptr moves to the position, or stays when the seek fails
ReaderSeekFrom(r, pos) ==
    IF SeekOk(r, pos) THEN ReaderSeek(r, SeekPosition(r, pos)) ELSE r

\* Seek::rewind
ReaderRewind(r) == [r EXCEPT !.ptr = r.head_ptr]

\* Read::unread
ReaderUnread(r) == [r EXCEPT !.unread = TRUE]

\* a scope as long as all that is buffered
RsrOrDatagramLen_All(header, rsr) == rsr

\* min(header.len, rsr): limit to the length of the first datagram
RsrOrDatagramLen(header, rsr) == Min(header.len, rsr)

\* the UdpReader udp_reader builds from Sn_RX_RD, the header and Sn_RX_RSR - 8
UdpReaderNew(rd, header, rsr) ==
    LET head_ptr == WrappingAdd(rd, HeaderLen)
        tail_ptr == WrappingAdd(head_ptr, RsrOrDatagramLen(header, rsr))
    IN  [ head_ptr |-> head_ptr, tail_ptr |-> tail_ptr, ptr |-> head_ptr,
          unread |-> FALSE, header |-> header, open |-> TRUE,
          view |-> SnRxBuf(head_ptr, WrappingSub(tail_ptr, head_ptr)) ]

\* an exit that commits whatever the flag
ReaderCommits_Always(r) == TRUE

\* !reader.inner.is_unread(): the scope commits at its exit
ReaderCommits(r) == ~r.unread

\* a commit of what the body read only
ReaderCommitPtr_Read(r) == r.ptr

\* the pointer a committing scope writes to Sn_RX_RD
ReaderCommitPtr(r) == r.tail_ptr

\* a body error that first writes the commit pointer
ReaderBodyErr_Commits ==
    /\ SetSnRxRd(reader.tail_ptr)
    /\ Return(Result("BodyErr", 0, NoHeader.origin, 0, <<>>))
    /\ UNCHANGED <<loc, reader, writer>>

\* f(&mut reader)? with f returning an error: the error goes to the caller
ReaderBodyErr ==
    /\ Return(Result("BodyErr", 0, NoHeader.origin, 0, <<>>))
    /\ UNCHANGED <<hw, writer, loc, reader, trace>>

\* what the caller's body does with the reader, one call at a time, until it
\* returns Ok or an error
ReaderBody ==
    /\ pc = "reader_body"
    /\ \/ /\ \E n \in 1 .. MaxBuf : reader' = ReaderRead(reader, n)
          /\ reader' # reader
          /\ Goto("reader_body")
          /\ UNCHANGED <<hw, writer, loc, trace>>
       \/ /\ \E n \in 0 .. MaxLen : reader' = ReaderSeek(reader, n)
          /\ reader' # reader
          /\ Goto("reader_body")
          /\ UNCHANGED <<hw, writer, loc, trace>>
       \/ /\ ~reader.unread
          /\ reader' = ReaderUnread(reader)
          /\ Goto("reader_body")
          /\ UNCHANGED <<hw, writer, loc, trace>>
       \/ /\ Goto("reader_exit")
          /\ UNCHANGED <<hw, writer, loc, reader, trace>>
       \/ ReaderBodyErr

\* Udp::udp_reader
udp_reader ==
    \/ Call("reader", 0, "reader_sr")
    \/ /\ pc = "reader_sr"
       /\ \/ TransportError
          \/ /\ Goto("reader_rsr")
             /\ UNCHANGED <<hw, writer, loc, reader, trace>>
    \/ /\ pc = "reader_rsr"
       /\ \/ TransportError
          \/ LET r == CheckedSub(sn_rx_rsr, HeaderLen)
             IN  IF r = <<>>
                 THEN /\ Return(Result("WouldBlock", 0, NoHeader.origin, 0, <<>>))
                      /\ loc' = [loc EXCEPT !.avail = sn_rx_rsr]
                      /\ UNCHANGED <<hw, writer, reader, trace>>
                 ELSE /\ Goto("reader_rd")
                      /\ loc' = [loc EXCEPT !.avail = sn_rx_rsr, !.rsr = r[1]]
                      /\ UNCHANGED <<hw, writer, reader, trace>>
    \/ /\ pc = "reader_rd"
       /\ \/ TransportError
          \/ /\ Goto("reader_hdr")
             /\ loc' = [loc EXCEPT !.ptr = sn_rx_rd]
             /\ UNCHANGED <<hw, writer, reader, trace>>
    \/ /\ pc = "reader_hdr"
       /\ \/ TransportError
          \/ LET header == Deser(SnRxBuf(loc.ptr, HeaderLen))
             IN  /\ reader' = UdpReaderNew(loc.ptr, header, loc.rsr)
                 /\ loc' = [loc EXCEPT !.header = header]
                 /\ Goto("reader_body")
                 /\ UNCHANGED <<hw, writer, trace>>
    \/ ReaderBody
    \/ /\ pc = "reader_exit"
       /\ IF ReaderCommits(reader)
          THEN \/ TransportError
               \/ /\ SetSnRxRd(ReaderCommitPtr(reader))
                  /\ Goto("reader_cr")
                  /\ UNCHANGED <<loc, reader, writer>>
          ELSE /\ Return(Result("Ok", 0, NoHeader.origin, 0, <<>>))
               /\ UNCHANGED <<hw, writer, loc, reader, trace>>
    \/ /\ pc = "reader_cr"
       /\ \/ TransportError
          \/ /\ SetSnCrRecv
             /\ Return(Result("Ok", 0, NoHeader.origin, 0, <<>>))
             /\ UNCHANGED <<loc, reader, writer>>

\* ----------------------------------------------------------------- Writer
\* the bytes a caller writes from a buffer of n bytes
CallerData(n) == [ i \in 1 .. n |-> 64 + i ]

\* where a caller sends to
Dests == { [ip |-> <<192, 0, 2, 1>>, port |-> 8081] }

\* bytes left between ptr and tail_ptr
WriterRemain(w) == WrappingSub(w.tail_ptr, w.ptr)

\* Writer::write of a buffer of n bytes: the bytes it takes
WriterWriteLen(w, n) == Min(n, WriterRemain(w))

\* Writer::write_all of a buffer of n bytes succeeds
WriteAllOk(w, n) == n <= WriterRemain(w)

\* the writer after k bytes were written at ptr
WriterAdvance(w, k) == [w EXCEPT !.ptr = WrappingAdd(w.ptr, k)]

\* Writer::abort
WriterAbort(w) == [w EXCEPT !.abort = TRUE]

\* the Writer udp_writer and udp_writer_to build from Sn_TX_WR and Sn_TX_FSR
UdpWriterNew(wr, fsr) ==
    [ head_ptr |-> wr, tail_ptr |-> WrappingAdd(wr, fsr), ptr |-> wr,
      abort |-> FALSE, open |-> TRUE ]

\* !writer.abort: the scope commits at its exit
WriterCommits(w) == ~w.abort

\* a commit of all the free space the scope began with
WriterCommitPtr_Tail(w) == w.tail_ptr

\* the pointer a committing scope writes to Sn_TX_WR
WriterCommitPtr(w) == w.ptr

\* f(&mut writer)? with f returning an error: the error goes to the caller
WriterBodyErr ==
    /\ Return(Result("BodyErr", 0, NoHeader.origin, 0, <<>>))
    /\ UNCHANGED <<hw, loc, reader, writer, trace>>

\* what the caller's body does with the writer, one call at a time, until it
\* returns Ok or an error
WriterBody(p) ==
    /\ pc = p \o "_body"
    /\ \/ \E n \in 1 .. MaxBuf :
             LET k == WriterWriteLen(writer, n)
             IN  /\ k > 0
                 /\ SetSnTxBuf(writer.ptr, SubSeq(CallerData(n), 1, k))
                 /\ writer' = WriterAdvance(writer, k)
                 /\ Goto(p \o "_body")
                 /\ UNCHANGED <<loc, reader>>
       \/ /\ ~writer.abort
          /\ writer' = WriterAbort(writer)
          /\ Goto(p \o "_body")
          /\ UNCHANGED <<hw, loc, reader, trace>>
       \/ /\ Goto(p \o "_exit")
          /\ UNCHANGED <<hw, loc, reader, writer, trace>>
       \/ WriterBodyErr

\* the shared front of udp_writer and udp_writer_to: the status assertion of
\* a debug build, Sn_TX_FSR, Sn_TX_WR, the Writer, the body
WriterFront(p) ==
    \/ /\ pc = p \o "_sr"
       /\ \/ TransportError
          \/ /\ Goto(p \o "_fsr")
             /\ UNCHANGED <<hw, writer, loc, reader, trace>>
    \/ /\ pc = p \o "_fsr"
       /\ \/ TransportError
          \/ /\ Goto(p \o "_wr")
             /\ loc' = [loc EXCEPT !.fsr = sn_tx_fsr]
             /\ UNCHANGED <<hw, writer, reader, trace>>
    \/ /\ pc = p \o "_wr"
       /\ \/ TransportError
          \/ /\ Goto(p \o "_body")
             /\ loc' = [loc EXCEPT !.ptr = sn_tx_wr]
             /\ writer' = UdpWriterNew(sn_tx_wr, loc.fsr)
             /\ UNCHANGED <<hw, reader, trace>>
    \/ WriterBody(p)

\* Udp::udp_writer
udp_writer ==
    \/ Call("writer", 0, "writer_sr")
    \/ WriterFront("writer")
    \/ /\ pc = "writer_exit"
       /\ IF WriterCommits(writer)
          THEN \/ TransportError
               \/ /\ SetSnTxWr(WriterCommitPtr(writer))
                  /\ Goto("writer_cr")
                  /\ UNCHANGED <<loc, reader, writer>>
          ELSE /\ Return(Result("Ok", 0, NoHeader.origin, 0, <<>>))
               /\ UNCHANGED <<hw, writer, loc, reader, trace>>
    \/ /\ pc = "writer_cr"
       /\ \/ TransportError
          \/ /\ SetSnCrSend
             /\ Return(Result("Ok", 0, NoHeader.origin, 0, <<>>))
             /\ UNCHANGED <<loc, reader, writer>>

\* Udp::udp_writer_to
udp_writer_to ==
    \/ \E addr \in Dests : CallTo("writer_to", 0, addr, "writer_to_sr")
    \/ WriterFront("writer_to")
    \/ /\ pc = "writer_to_exit"
       /\ IF WriterCommits(writer)
          THEN \/ TransportError
               \/ /\ SetSnDest(loc.dest)
                  /\ Goto("writer_to_set_wr")
                  /\ UNCHANGED <<loc, reader, writer>>
          ELSE /\ Return(Result("Ok", 0, NoHeader.origin, 0, <<>>))
               /\ UNCHANGED <<hw, writer, loc, reader, trace>>
    \/ /\ pc = "writer_to_set_wr"
       /\ \/ TransportError
          \/ /\ SetSnTxWr(WriterCommitPtr(writer))
             /\ Goto("writer_to_cr")
             /\ UNCHANGED <<loc, reader, writer>>
    \/ /\ pc = "writer_to_cr"
       /\ \/ TransportError
          \/ /\ SetSnCrSend
             /\ Return(Result("Ok", 0, NoHeader.origin, 0, <<>>))
             /\ UNCHANGED <<loc, reader, writer>>

\* ------------------------------------------------------------------- bind
\* a first loop that does not wait
BindClosed_Any(sr) == TRUE

\* udp_bind: the status that ends the loop after Close
BindClosed(sr) == sr = "Closed"

\* a second loop that waits for the status of a TCP socket
BindOpened_Init(sr) == sr = "Init"

\* udp_bind: the status that ends the loop after Open
BindOpened(sr) == sr = "Udp"

\* udp_bind: the mode it writes
BindMode == "Udp"

\* the positions of udp_bind
BindPcs ==
    { "bind_unique", "bind_close", "bind_closed", "bind_port", "bind_mr",
      "bind_open", "bind_opened" }

\* the result of udp_bind
BindResult(status) == Result(status, 0, NoHeader.origin, 0, <<>>)

\* one pass of a loop of udp_bind: Sn_SR is read; the status awaited ends the
\* loop, any other starts it again
BindPoll(awaited) ==
    IF awaited
    THEN /\ trace' = Append(trace, <<"sn_sr", sock.sr>>)
         /\ loc' = [loc EXCEPT !.polls = 0]
    ELSE /\ loc.polls < MaxPolls
         /\ loc' = [loc EXCEPT !.polls = loc.polls + 1]
         /\ UNCHANGED trace

\* a register access of udp_bind that the transport carries out
BindStep ==
    \/ /\ pc = "bind_unique"
       /\ Goto("bind_close")
       /\ UNCHANGED <<hw, writer, loc, reader, trace>>
    \/ /\ pc = "bind_close"
       /\ SetSnCr("Close")
       /\ Goto("bind_closed")
       /\ UNCHANGED <<loc, reader, writer>>
    \/ /\ pc = "bind_closed"
       /\ BindPoll(BindClosed(sock.sr))
       /\ Goto(IF BindClosed(sock.sr) THEN "bind_port" ELSE "bind_closed")
       /\ UNCHANGED <<hw, reader, writer>>
    \/ /\ pc = "bind_port"
       /\ SetSnPort(loc.port)
       /\ Goto("bind_mr")
       /\ UNCHANGED <<loc, reader, writer>>
    \/ /\ pc = "bind_mr"
       /\ SetSnMr(BindMode)
       /\ Goto("bind_open")
       /\ UNCHANGED <<loc, reader, writer>>
    \/ /\ pc = "bind_open"
       /\ SetSnCr("Open")
       /\ Goto("bind_opened")
       /\ UNCHANGED <<loc, reader, writer>>
    \/ /\ pc = "bind_opened"
       /\ BindPoll(BindOpened(sock.sr))
       /\ IF BindOpened(sock.sr)
          THEN Return(BindResult("Ok"))
          ELSE Goto("bind_opened")
       /\ UNCHANGED <<hw, reader, writer>>

\* a register access of udp_bind that the transport fails
BindFail ==
    /\ pc \in BindPcs
    /\ TransportError

\* the caller calls udp_bind with a port
BindCall ==
    \E port \in Ports :
       CallWith("bind_unique", [NoLoc EXCEPT !.op = "bind", !.port = port])

\* Udp::udp_bind
udp_bind == BindCall \/ BindStep \/ BindFail

\* ------------------------------------------------------------------- send
\* a send that fills the free size whatever the length of the data
TxBytes_Free(data_len, free_size) == free_size

\* udp_send: tx_bytes, the bytes of the data that go out
TxBytes(data_len, free_size) == Min(data_len, free_size)

\* udp_send_if_free: u16::try_from(buf.len()), Err as the empty sequence
TryLenAsU16(n) == IF n > U16Max THEN <<>> ELSE <<n>>

\* a comparison that lets data through that is one byte too long
FitsFree_OffByOne(data_len, free_size) == data_len <= free_size + 1

\* a comparison that turns down data that fill the free size exactly
FitsFree_Strict(data_len, free_size) == data_len < free_size

\* udp_send_if_free: the data fit into the free size
FitsFree(data_len, free_size) == data_len <= free_size

\* udp_send_if_free: the count it returns, sent or not
SendIfFreeCount(data_len) == data_len

\* the result of a send: Ok with the count n
SendOk(n) == Result("Ok", n, NoHeader.origin, 0, <<>>)

\* a commit that issues the command before it writes the pointer
SendCommit_CommandFirst(p, count) ==
    \/ /\ pc = p \o "_set_wr"
       /\ \/ TransportError
          \/ /\ SetSnCrSend
             /\ Goto(p \o "_cr")
             /\ UNCHANGED <<loc, reader, writer>>
    \/ /\ pc = p \o "_cr"
       /\ \/ TransportError
          \/ /\ SetSnTxWr(WrappingAdd(loc.ptr, loc.tx_bytes))
             /\ Return(SendOk(count))
             /\ UNCHANGED <<loc, reader, writer>>

\* the end of udp_send and udp_send_if_free: Sn_TX_WR moves past the bytes
\* written, then the Send command, then Ok with the count
SendCommit(p, count) ==
    \/ /\ pc = p \o "_set_wr"
       /\ \/ TransportError
          \/ /\ SetSnTxWr(WrappingAdd(loc.ptr, loc.tx_bytes))
             /\ Goto(p \o "_cr")
             /\ UNCHANGED <<loc, reader, writer>>
    \/ /\ pc = p \o "_cr"
       /\ \/ TransportError
          \/ /\ SetSnCrSend
             /\ Return(SendOk(count))
             /\ UNCHANGED <<loc, reader, writer>>

\* reading Sn_TX_WR and writing the first loc.tx_bytes bytes of the data there
SendWrite(p) ==
    \/ /\ pc = p \o "_wr"
       /\ \/ TransportError
          \/ /\ Goto(p \o "_buf")
             /\ loc' = [loc EXCEPT !.ptr = sn_tx_wr]
             /\ UNCHANGED <<hw, writer, reader, trace>>
    \/ /\ pc = p \o "_buf"
       /\ \/ TransportError
          \/ /\ SetSnTxBuf(loc.ptr, CallerData(loc.tx_bytes))
             /\ Goto(p \o "_set_wr")
             /\ UNCHANGED <<loc, reader, writer>>

\* Udp::udp_send, called by the caller or by udp_send_to
udp_send ==
    \/ \E n \in BufLens : Call("send", n, "send_sr")
    \/ /\ pc = "send_sr"
       /\ \/ TransportError
          \/ /\ Goto("send_fsr")
             /\ UNCHANGED <<hw, writer, loc, reader, trace>>
    \/ /\ pc = "send_fsr"
       /\ \/ TransportError
          \/ LET tx_bytes == TxBytes(LenAsU16(loc.buflen), sn_tx_fsr)
             IN  /\ loc' = [loc EXCEPT !.fsr = sn_tx_fsr, !.tx_bytes = tx_bytes]
                 /\ IF tx_bytes # 0
                    THEN Goto("send_wr")
                    ELSE Return(SendOk(tx_bytes))
                 /\ UNCHANGED <<hw, writer, reader, trace>>
    \/ SendWrite("send")
    \/ SendCommit("send", loc.tx_bytes)

\* Udp::udp_send_to
udp_send_to ==
    \/ \E n \in BufLens, addr \in Dests : CallTo("send_to", n, addr, "send_to_dest")
    \/ /\ pc = "send_to_dest"
       /\ \/ TransportError
          \/ /\ SetSnDest(loc.dest)
             /\ Goto("send_sr")
             /\ UNCHANGED <<loc, reader, writer>>

\* Udp::udp_send_if_free, called by the caller or by udp_send_to_if_free
udp_send_if_free ==
    \/ \E n \in BufLens : Call("send_if_free", n, "sif_sr")
    \/ /\ pc = "sif_sr"
       /\ \/ TransportError
          \/ /\ IF TryLenAsU16(loc.buflen) = <<>>
                THEN Return(SendOk(0))
                ELSE Goto("sif_fsr")
             /\ UNCHANGED <<hw, writer, loc, reader, trace>>
    \/ /\ pc = "sif_fsr"
       /\ \/ TransportError
          \/ LET data_len == TryLenAsU16(loc.buflen)[1]
             IN  IF FitsFree(data_len, sn_tx_fsr)
                 THEN /\ loc' = [loc EXCEPT !.fsr = sn_tx_fsr, !.tx_bytes = data_len]
                      /\ Goto("sif_wr")
                      /\ UNCHANGED <<hw, writer, reader, trace>>
                 ELSE /\ loc' = [loc EXCEPT !.fsr = sn_tx_fsr]
                      /\ Return(SendOk(SendIfFreeCount(data_len)))
                      /\ UNCHANGED <<hw, writer, reader, trace>>
    \/ SendWrite("sif")
    \/ SendCommit("sif", SendIfFreeCount(loc.buflen))

\* Udp::udp_send_to_if_free
udp_send_to_if_free ==
    \/ \E n \in BufLens, addr \in Dests :
          CallTo("send_to_if_free", n, addr, "sif_to_dest")
    \/ /\ pc = "sif_to_dest"
       /\ \/ TransportError
          \/ /\ SetSnDest(loc.dest)
             /\ Goto("sif_sr")
             /\ UNCHANGED <<loc, reader, writer>>

Init ==
    /\ side \in {"rx", "tx", "bind"}
    /\ tx_base \in StartPtrs
    /\ tx_mem = <<>>
    /\ tx_sent = <<>>
    /\ sn_tx_fsr = TxSize
    /\ sn_tx_wr = tx_base
    /\ tx_wr_chip = tx_base
    /\ sn_dest = NoDest
    /\ writer = NoWriter
    /\ rx_base \in RxStartPtrs
    /\ rx_mem = <<>>
    /\ rx_dgrams = <<>>
    /\ sn_rx_rsr = 0
    /\ sn_rx_rd = rx_base
    /\ rx_rd_chip = rx_base
    /\ pc = "idle"
    /\ loc = NoLoc
    /\ reader = NoReader
    /\ trace = <<>>
    /\ ret = NoRet
    /\ prev = NoRet
    /\ calm = FALSE
    /\ failed = FALSE
    /\ sock \in IF side = "bind" THEN SockStates ELSE {OpenedUdp}

Chip ==
    \/ \E s \in Senders, len \in 0 .. MaxLen :
          \E vis \in Buffered(len) : ChipArrive(s, len, vis)
    \/ ChipBuffered
    \/ ChipSent
    \/ ChipCommand

Next ==
    \/ Chip
    \/ Idle
    \/ udp_recv_from
    \/ udp_peek_from
    \/ udp_peek_from_header
    \/ udp_reader
    \/ udp_writer
    \/ udp_writer_to
    \/ udp_send
    \/ udp_send_to
    \/ udp_send_if_free
    \/ udp_send_to_if_free
    \/ udp_bind

Spec == Init /\ [][Next]_vars

\* udp_bind alone, on a chip that carries out the commands it is given and
\* a transport that goes on serving the accesses it does not fail
BindInit == Init /\ side = "bind"

BindNext == ChipCommand \/ Idle \/ udp_bind

BindLive ==
    /\ BindInit
    /\ [][BindNext]_vars
    /\ WF_vars(ChipCommand)
    /\ WF_vars(BindStep)

\* udp_recv_from alone, called again and again, while the chip goes on
\* appending datagrams between any two of its register accesses
RecvInit == Init /\ side = "rx"

ChipAppend ==
    \/ \E s \in Senders, len \in 0 .. MaxLen :
          \E vis \in Buffered(len) : ChipArrive(s, len, vis)
    \/ ChipBuffered

RecvNext == ChipAppend \/ Idle \/ udp_recv_from

RecvSpec == RecvInit /\ [][RecvNext]_vars

\* ------------------------------------------------------- a scope's cursor
\* the addresses a scope begins at: one far from, one at the wrap
CursorHeads == {8, U16Max}

\* buffer lengths of the reads and writes of a scope
CursorLens == 0 .. MaxBuf + 1

\* the result of an operation of a scope: the operation, its status, the
\* buffer length it was given (or the offset sought), the bytes it took
CursorResult(op, status, req, data) ==
    [NoRet EXCEPT !.op = op, !.status = status, !.at = "cursor", !.len = req,
                  !.n = Len(data), !.data = data]

\* a reader scope over one datagram, as udp_reader opens it, and a writer
\* scope over the free space, as udp_writer opens it
CursorInit ==
    /\ side = "cursor"
    /\ pc = "cursor"
    /\ \E head \in CursorHeads, s \in Senders, len \in 0 .. MaxLen :
          /\ rx_base = WrappingSub(head, HeaderLen)
          /\ rx_mem = Ser(s.origin, len) \o Payload(s, len)
          /\ rx_dgrams = << [origin |-> s.origin, len |-> len, data |-> Payload(s, len)] >>
          /\ sn_rx_rsr = HeaderLen + len
    /\ sn_rx_rd = rx_base
    /\ rx_rd_chip = rx_base
    /\ reader = UdpReaderNew(sn_rx_rd, Deser(SnRxBuf(sn_rx_rd, HeaderLen)),
                             sn_rx_rsr - HeaderLen)
    /\ tx_base \in CursorHeads
    /\ tx_mem = <<>>
    /\ tx_sent = <<>>
    /\ sn_tx_fsr \in 0 .. TxSize
    /\ sn_tx_wr = tx_base
    /\ tx_wr_chip = tx_base
    /\ sn_dest = NoDest
    /\ writer = UdpWriterNew(sn_tx_wr, sn_tx_fsr)
    /\ sock = OpenedUdp
    /\ loc = NoLoc
    /\ trace = <<>>
    /\ ret = NoRet
    /\ prev = NoRet
    /\ calm = FALSE
    /\ failed = FALSE

\* reader.read(buf)
CursorRead ==
    \E n \in CursorLens :
       /\ reader' = ReaderRead(reader, n)
       /\ ret' = CursorResult("read", "Ok", n, ReaderReadBytes(reader, n))
       /\ UNCHANGED <<hw, pc, loc, writer, trace, prev, calm, failed>>

\* reader.read_exact(buf)
CursorReadExact ==
    \E n \in CursorLens :
       /\ reader' = ReaderReadExact(reader, n)
       /\ ret' = IF ReadExactOk(reader, n)
                 THEN CursorResult("read_exact", "Ok", n, ReaderReadBytes(reader, n))
                 ELSE CursorResult("read_exact", "Truncated", n, <<>>)
       /\ UNCHANGED <<hw, pc, loc, writer, trace, prev, calm, failed>>

\* reader.seek(pos)
CursorSeek ==
    \E pos \in SeekFroms :
       /\ reader' = ReaderSeekFrom(reader, pos)
       /\ ret' = [CursorResult("seek", IF SeekOk(reader, pos) THEN "Ok" ELSE "SeekErr",
                               pos.off, <<>>) EXCEPT !.at = pos.from]
       /\ UNCHANGED <<hw, pc, loc, writer, trace, prev, calm, failed>>

\* reader.rewind()
CursorRewind ==
    /\ reader' = ReaderRewind(reader)
    /\ ret' = CursorResult("rewind", "Ok", 0, <<>>)
    /\ UNCHANGED <<hw, pc, loc, writer, trace, prev, calm, failed>>

\* the writer puts the first k bytes of a buffer of n bytes at ptr
CursorPut(n, k) ==
    /\ writer' = WriterAdvance(writer, k)
    /\ IF k > 0
       THEN SetSnTxBuf(writer.ptr, SubSeq(CallerData(n), 1, k))
       ELSE UNCHANGED <<hw, trace>>
    /\ UNCHANGED <<pc, loc, reader, prev, calm, failed>>

\* writer.write(buf)
CursorWrite ==
    \E n \in CursorLens :
       /\ CursorPut(n, WriterWriteLen(writer, n))
       /\ ret' = CursorResult("write", "Ok", n,
                              SubSeq(CallerData(n), 1, WriterWriteLen(writer, n)))

\* writer.write_all(buf)
CursorWriteAll ==
    \E n \in CursorLens :
       IF WriteAllOk(writer, n)
       THEN /\ CursorPut(n, n)
            /\ ret' = CursorResult("write_all", "Ok", n, CallerData(n))
       ELSE /\ ret' = CursorResult("write_all", "OutOfMemory", n, <<>>)
            /\ UNCHANGED <<hw, pc, loc, reader, writer, trace, prev, calm, failed>>

CursorNext ==
    \/ CursorRead
    \/ CursorReadExact
    \/ CursorSeek
    \/ CursorRewind
    \/ CursorWrite
    \/ CursorWriteAll

\* the operations of a reader scope and of a writer scope, in any order
CursorSpec == CursorInit /\ [][CursorNext]_vars

\* ------------------------------------------------------------------ claims
\* offset in rx_mem of the header of the k-th datagram delivered
RECURSIVE DgramStart(_)
DgramStart(k) ==
    IF k <= 1 THEN 0 ELSE DgramStart(k - 1) + HeaderLen + rx_dgrams[k - 1].len

\* address a is where the header of the k-th datagram delivered lies
AtDatagram(a, k) ==
    /\ k \in 1 .. Len(rx_dgrams)
    /\ a = WrappingAdd(rx_base, DgramStart(k))

\* the first n elements of a sequence
Prefix(q, n) == SubSeq(q, 1, Min(n, Len(q)))

\* the calls that receive
RxOps == {"recv", "peek", "peek_header", "reader"}

\* C1: a udp_recv_from that found the whole datagram buffered (Sn_RX_RSR - 8 >=
\* header.len) and met no transport error returns Ok with min(header.len,
\* buf.len()) bytes of the payload and the header's origin, has set Sn_RX_RD to
\* its old value + 8 + header.len and then issued Recv, whatever the buffer
\* length; and where Sn_RX_RD stood at a datagram, header and payload are that
\* datagram's.
C1_RecvFrom ==
    ( /\ pc = "done"
      /\ loc.op = "recv"
      /\ ret.at \in {"recv_hdr", "recv_buf", "recv_set_rd", "recv_cr"}
      /\ loc.rsr >= loc.header.len
      /\ ret.status # "Other" )
    => /\ ret.status = "Ok"
       /\ ret.n = Min(loc.header.len, loc.buflen)
       /\ ret.data = SnRxBuf(WrappingAdd(loc.rd0, HeaderLen), ret.n)
       /\ ret.origin = loc.header.origin
       /\ sn_rx_rd = (loc.rd0 + HeaderLen + loc.header.len) % U16Mod
       /\ trace = << <<"set_sn_rx_rd", sn_rx_rd>>, <<"set_sn_cr", "Recv">> >>
       /\ \A k \in 1 .. Len(rx_dgrams) :
             AtDatagram(loc.rd0, k) =>
                /\ ret.origin = rx_dgrams[k].origin
                /\ loc.header.len = rx_dgrams[k].len
                /\ ret.data = Prefix(rx_dgrams[k].data, loc.buflen)

\* a receive into a buffer shorter than the datagram, across the pointer wrap
C1_Witness ==
    /\ pc = "done"
    /\ loc.op = "recv"
    /\ ret.status = "Ok"
    /\ loc.header.len = 2
    /\ loc.buflen = 1
    /\ ret.n = 1
    /\ sn_rx_rd < loc.rd0
    /\ AtDatagram(loc.rd0, 1)

\* C2: udp_peek_from and udp_peek_from_header write no register and issue no
\* command at any step of any path, so Sn_RX_RD stays what it was; and a peek
\* or receive that follows a successful peek with nothing changed in between
\* reads the same header (unless the transport fails), and after udp_peek_from
\* succeeds with the same count and bytes.
C2_PeekNoEffect ==
    /\ loc.op \in {"peek", "peek_header"} =>
          /\ trace = <<>>
          /\ sn_rx_rd = loc.rd0
    /\ ( /\ pc = "done"
         /\ prev.op \in {"peek", "peek_header"}
         /\ ret.status # "Other" ) =>
          /\ loc.header = [origin |-> prev.origin, len |-> prev.len]
          /\ ret.status = "Ok" => ret.origin = prev.origin
          /\ prev.op = "peek" =>
                (ret.status = "Ok" /\ ret.n = prev.n /\ ret.data = prev.data)

\* a receive that returns what the peek before it returned
C2_Witness ==
    /\ pc = "done"
    /\ prev.op = "peek"
    /\ prev.n = 2
    /\ loc.op = "recv"
    /\ ret.status = "Ok"
    /\ ret.n = 2

\* C3: a receiving call that read Sn_RX_RSR < 8 has returned WouldBlock at that
\* step, with no register written, no command issued, Sn_RX_RD as it was and
\* no reader scope opened.
C3_NoHeaderWouldBlock ==
    (loc.op \in RxOps /\ loc.avail \in 0 .. HeaderLen - 1) =>
       /\ pc = "done"
       /\ ret.status = "WouldBlock"
       /\ trace = <<>>
       /\ sn_rx_rd = loc.rd0
       /\ ~reader.open
       /\ loc.buf = <<>>

\* udp_reader returns WouldBlock on 7 buffered bytes
C3_Witness ==
    /\ pc = "done"
    /\ loc.op = "reader"
    /\ loc.avail = HeaderLen - 1
    /\ ret.status = "WouldBlock"

\* C4: a udp_recv_from or udp_peek_from whose header declares more payload
\* than is buffered behind it (header.len > Sn_RX_RSR - 8) has returned
\* WouldBlock at that step, with no payload copied, Sn_RX_RD as it was and no
\* command issued.
C4_PartialWouldBlock ==
    (loc.op \in {"recv", "peek"} /\ loc.header.len > loc.rsr) =>
       /\ pc = "done"
       /\ ret.status = "WouldBlock"
       /\ ret.at \in {"recv_hdr", "peek_hdr"}
       /\ loc.buf = <<>>
       /\ trace = <<>>
       /\ sn_rx_rd = loc.rd0

\* udp_recv_from on a datagram of 2 bytes with 1 buffered
C4_Witness ==
    /\ pc = "done"
    /\ loc.op = "recv"
    /\ loc.header.len = 2
    /\ loc.rsr = 1
    /\ loc.buflen = 2
    /\ ret.status = "WouldBlock"

\* C5: a udp_reader whose header declares more payload than is buffered behind
\* it has returned WouldBlock without opening a scope (so without running the
\* body), with Sn_RX_RD as it was and no command issued.
C5_ReaderPartialWouldBlock ==
    (loc.op = "reader" /\ loc.header.len > loc.rsr) =>
       /\ pc = "done"
       /\ ret.status = "WouldBlock"
       /\ ~reader.open
       /\ trace = <<>>
       /\ sn_rx_rd = loc.rd0

\* C6 as claimed: a udp_recv_from with a buffer of H.len bytes that follows a
\* successful udp_peek_from_header returning H, nothing changed in between and
\* no transport error, succeeds with count H.len and origin H.origin.
C6_PeekHeaderThenRecvSucceeds ==
    ( /\ pc = "done"
      /\ prev.op = "peek_header"
      /\ loc.op = "recv"
      /\ ret.status # "Other" )
    => /\ ret.status = "Ok"
       /\ ret.n = prev.len
       /\ ret.origin = prev.origin

\* C6 as amended: such a udp_recv_from returns WouldBlock, with nothing
\* consumed, exactly when H.len exceeds what is buffered behind the header
\* (H.len > Sn_RX_RSR - 8), and otherwise succeeds with count H.len and origin
\* H.origin.
C6_PeekHeaderThenRecv ==
    ( /\ pc = "done"
      /\ prev.op = "peek_header"
      /\ loc.op = "recv"
      /\ ret.status # "Other" )
    => /\ loc.header.len = prev.len
       /\ loc.buflen = prev.len
       /\ IF prev.len > loc.avail - HeaderLen
          THEN /\ ret.status = "WouldBlock"
               /\ trace = <<>>
               /\ sn_rx_rd = loc.rd0
          ELSE /\ ret.status = "Ok"
               /\ ret.n = prev.len
               /\ ret.origin = prev.origin
               /\ Len(ret.data) = prev.len

\* the receive sized by the peeked header returns the whole datagram
C6_Witness ==
    /\ pc = "done"
    /\ prev.op = "peek_header"
    /\ prev.len = 2
    /\ loc.op = "recv"
    /\ ret.status = "Ok"
    /\ ret.n = 2

\* C7: a udp_reader whose body returned Ok without unread() and that met no
\* transport error has set Sn_RX_RD to the scope's tail_ptr, which is the old
\* Sn_RX_RD + 8 + the scope's length, and then issued Recv, once, wherever the
\* body left ptr.
C7_ReaderCommit ==
    ( /\ pc = "done"
      /\ loc.op = "reader"
      /\ ret.status = "Ok"
      /\ ~reader.unread )
    => /\ sn_rx_rd = reader.tail_ptr
       /\ reader.tail_ptr =
             (loc.rd0 + HeaderLen + Min(loc.header.len, loc.rsr)) % U16Mod
       /\ StreamLen(reader) = Min(loc.header.len, loc.rsr)
       /\ trace = << <<"set_sn_rx_rd", reader.tail_ptr>>, <<"set_sn_cr", "Recv">> >>

\* a scope of 2 bytes commits after its body read 1 byte
C7_Witness ==
    /\ pc = "done"
    /\ loc.op = "reader"
    /\ ret.status = "Ok"
    /\ ~reader.unread
    /\ StreamLen(reader) = 2
    /\ StreamPosition(reader) = 1
    /\ sn_rx_rd = reader.tail_ptr

\* C8: a udp_reader whose body called unread() writes no register and issues
\* no command, so Sn_RX_RD stays what it was; and a scope opened right after
\* it, nothing changed in between, has the same header, head_ptr, tail_ptr and
\* readable bytes.
C8_ReaderUnread ==
    /\ (loc.op = "reader" /\ reader.unread) =>
          /\ trace = <<>>
          /\ sn_rx_rd = loc.rd0
          /\ pc \in {"reader_body", "reader_exit", "done"}
          /\ pc = "done" => ret.status \in {"Ok", "BodyErr"}
    /\ (loc.op = "reader" /\ prev.op = "reader" /\ reader.open) =>
          /\ reader.header = prev.scope.header
          /\ reader.head_ptr = prev.scope.head_ptr
          /\ reader.tail_ptr = prev.scope.tail_ptr
          /\ reader.view = prev.scope.view
    /\ (pc = "done" /\ loc.op = "reader" /\ prev.op = "reader") =>
          ret.status # "WouldBlock"

\* a second scope over the datagram the first one unread
C8_Witness ==
    /\ loc.op = "reader"
    /\ prev.op = "reader"
    /\ prev.scope.unread
    /\ reader.open
    /\ Len(reader.view) = 2
    /\ StreamPosition(prev.scope) = 2

\* the k-th and the datagram after it lie completely in what the call counted
\* as buffered, the k-th at Sn_RX_RD
TwoQueued(k) ==
    /\ AtDatagram(loc.rd0, k)
    /\ k + 1 <= Len(rx_dgrams)
    /\ loc.avail >= HeaderLen + rx_dgrams[k].len + HeaderLen + rx_dgrams[k + 1].len

\* C9: with two complete datagrams of L1 and L2 payload bytes queued at
\* Sn_RX_RD, the udp_reader scope has head_ptr = Sn_RX_RD + 8 and tail_ptr =
\* head_ptr + L1, its readable bytes are the first datagram's payload, and
\* every position the body reaches stays within them and every read it can
\* make there returns bytes of that payload only.
C9_ReaderIsolation ==
    \A k \in 1 .. Len(rx_dgrams) :
       (loc.op = "reader" /\ reader.open /\ TwoQueued(k)) =>
          /\ reader.head_ptr = (loc.rd0 + HeaderLen) % U16Mod
          /\ reader.tail_ptr = (reader.head_ptr + rx_dgrams[k].len) % U16Mod
          /\ reader.header = [origin |-> rx_dgrams[k].origin, len |-> rx_dgrams[k].len]
          /\ reader.view = rx_dgrams[k].data
          /\ StreamPosition(reader) + Remain(reader) = rx_dgrams[k].len
          /\ StreamPosition(reader) <= rx_dgrams[k].len
          /\ \A n \in 0 .. MaxBuf :
                ReaderReadBytes(reader, n) =
                   SubSeq(rx_dgrams[k].data, StreamPosition(reader) + 1,
                          Min(StreamPosition(reader) + n, rx_dgrams[k].len))

\* the body read all of a first datagram of 1 byte with a second one queued
C9_Witness ==
    /\ loc.op = "reader"
    /\ pc = "reader_body"
    /\ TwoQueued(1)
    /\ rx_dgrams[1].len = 1
    /\ rx_dgrams[2].len = 2
    /\ Remain(reader) = 0
    /\ StreamPosition(reader) = 1

\* the scoped entry points
ScopedOps == {"reader", "writer", "writer_to"}

\* the scope's rollback flag: unread of a reader, abort of a writer
ScopeFlag == IF loc.op = "reader" THEN reader.unread ELSE writer.abort

\* the register writes and commands of a call, the buffer writes left out
CommitOps(t) == SelectSeq(t, LAMBDA e : e[1] # "set_sn_tx_buf")

\* what a committing scope writes at its exit
ScopeCommit ==
    CASE loc.op = "reader" ->
           << <<"set_sn_rx_rd", reader.tail_ptr>>, <<"set_sn_cr", "Recv">> >>
      [] loc.op = "writer" ->
           << <<"set_sn_tx_wr", writer.ptr>>, <<"set_sn_cr", "Send">> >>
      [] OTHER ->
           << <<"set_sn_dest", loc.dest>>, <<"set_sn_tx_wr", writer.ptr>>,
              <<"set_sn_cr", "Send">> >>

\* a scoped call that came back from its body, with Ok or with the body's error
ScopeExited ==
    /\ pc = "done"
    /\ loc.op \in ScopedOps
    /\ ret.status \in {"Ok", "BodyErr"}

\* C10 as stated: udp_reader, udp_writer and udp_writer_to take the commit
\* decision on every exit path: a body that returned Ok or an error without
\* setting unread/abort has the pointer register written and Recv/Send
\* issued (the error re-raised afterwards), and one that set the flag has
\* nothing committed.
C10_CommitOnEveryExit ==
    ScopeExited =>
        CommitOps(trace) = IF ScopeFlag THEN <<>> ELSE ScopeCommit

\* C10 amended: the commit decision is taken only when the body returned Ok:
\* then a clear flag has the pointer register written and Recv/Send issued
\* and a set flag has nothing committed. When the body returned an error,
\* no register is written and no command issued whatever the flag, Sn_RX_RD
\* and Sn_TX_WR stay what they were, and the body's error is what the call
\* returns.
C10_CommitOnlyOnOk ==
    ScopeExited =>
        IF ret.status = "Ok" /\ ~ScopeFlag
        THEN CommitOps(trace) = ScopeCommit
        ELSE /\ CommitOps(trace) = <<>>
             /\ sn_rx_rd = loc.rd0
             /\ sn_tx_wr = loc.wr0
             /\ rx_rd_chip = loc.rd0 \/ loc.op # "reader"

\* a reader body failed after reading, unread() not called
C10_Witness ==
    /\ pc = "done"
    /\ loc.op = "reader"
    /\ ret.status = "BodyErr"
    /\ ~reader.unread
    /\ reader.ptr # reader.head_ptr
    /\ sn_rx_rd = loc.rd0

\* the calls that send a buffer, and those of them that set the destination
SendOps == {"send", "send_to"}

SendIfFreeOps == {"send_if_free", "send_to_if_free"}

ToOps == {"send_to", "send_to_if_free", "writer_to"}

\* what a call that sets the destination writes first
DestWrite == IF loc.op \in ToOps THEN << <<"set_sn_dest", loc.dest>> >> ELSE <<>>

\* the writes of a send of the first n bytes of the caller's data at Sn_TX_WR
SendWrites(n) ==
    << <<"set_sn_tx_buf", loc.wr0, CallerData(n)>>,
       <<"set_sn_tx_wr", WrappingAdd(loc.wr0, n)>>,
       <<"set_sn_cr", "Send">> >>

\* C11: a udp_send or udp_send_to that met no transport error returns
\* n = min(buf.len() capped at 65535, Sn_TX_FSR); with n > 0 it has written
\* the first n bytes of buf at the Sn_TX_WR it found, moved Sn_TX_WR by n
\* modulo 2^16 and issued Send, so that the chip sends those n bytes; with
\* n = 0 it has written no buffer byte, left Sn_TX_WR alone and issued no Send.
C11_Send ==
    (pc = "done" /\ loc.op \in SendOps /\ ret.status = "Ok") =>
        LET n == Min(Min(loc.buflen, U16Max), loc.fsr)
        IN  /\ ret.n = n
            /\ IF n = 0
               THEN /\ trace = DestWrite
                    /\ sn_tx_wr = loc.wr0
               ELSE /\ trace = DestWrite \o SendWrites(n)
                    /\ sn_tx_wr = (loc.wr0 + n) % U16Mod
                    /\ TxBuf(loc.wr0, n) = CallerData(n)
                    /\ tx_sent[Len(tx_sent)].data = CallerData(n)

\* a udp_send of 2 bytes that found 1 byte free
C11_Witness ==
    /\ pc = "done"
    /\ loc.op = "send"
    /\ ret.status = "Ok"
    /\ loc.buflen = 2
    /\ loc.fsr = 1
    /\ ret.n = 1
    /\ Len(tx_sent) = 2

\* C12: udp_send_if_free (alone or under udp_send_to_if_free) never writes
\* part of buf; returning without a transport error, it has written nothing
\* to the TX buffer, left Sn_TX_WR alone and issued no Send when buf.len()
\* exceeds Sn_TX_FSR or 65535, and has written all of buf, moved Sn_TX_WR by
\* buf.len() and issued Send when buf.len() <= Sn_TX_FSR.
C12_SendIfFreeWhole ==
    loc.op \in SendIfFreeOps =>
        /\ \A i \in 1 .. Len(trace) :
              trace[i][1] = "set_sn_tx_buf" =>
                 /\ loc.buflen <= loc.fsr
                 /\ trace[i] = <<"set_sn_tx_buf", loc.wr0, CallerData(loc.buflen)>>
        /\ (pc = "done" /\ ret.status = "Ok") =>
              IF loc.buflen > U16Max \/ loc.buflen > loc.fsr
              THEN /\ trace = DestWrite
                   /\ sn_tx_wr = loc.wr0
              ELSE /\ trace = DestWrite \o SendWrites(loc.buflen)
                   /\ sn_tx_wr = (loc.wr0 + loc.buflen) % U16Mod
                   /\ tx_sent[Len(tx_sent)].data = CallerData(loc.buflen)

\* a udp_send_if_free of 2 bytes that found 1 byte free
C12_Witness ==
    /\ pc = "done"
    /\ loc.op = "send_if_free"
    /\ ret.status = "Ok"
    /\ loc.buflen = 2
    /\ loc.fsr = 1
    /\ trace = <<>>

\* C13: udp_send_if_free and udp_send_to_if_free return the number of bytes
\* queued for transmission: buf.len() when the call wrote buf and issued
\* Send, 0 when it wrote nothing.
C13_SendIfFreeCount ==
    (pc = "done" /\ loc.op \in SendIfFreeOps /\ ret.status = "Ok") =>
        ret.n = IF \E i \in 1 .. Len(trace) : trace[i][1] = "set_sn_tx_buf"
                THEN loc.buflen
                ELSE 0

\* bytes the set_sn_tx_buf writes of a call put into the TX buffer
RECURSIVE TxWritten(_)
TxWritten(t) ==
    IF t = <<>> THEN 0
    ELSE (IF Head(t)[1] = "set_sn_tx_buf" THEN Len(Head(t)[3]) ELSE 0)
         + TxWritten(Tail(t))

\* C14: a udp_writer or udp_writer_to whose body returned Ok and that met no
\* transport error: without abort() it has set Sn_TX_WR to the writer's final
\* ptr, which is the Sn_TX_WR it found + the bytes written in the scope, and
\* issued Send once (udp_writer_to after writing the destination), so that
\* the chip sends just those bytes; with abort() it has written neither
\* Sn_TX_WR nor the destination and issued no Send.
C14_WriterExit ==
    (pc = "done" /\ loc.op \in {"writer", "writer_to"} /\ ret.status = "Ok") =>
        IF ~writer.abort
        THEN /\ sn_tx_wr = writer.ptr
             /\ writer.ptr = (loc.wr0 + TxWritten(trace)) % U16Mod
             /\ CommitOps(trace) = ScopeCommit
             /\ Len(tx_sent[Len(tx_sent)].data) = TxWritten(trace)
             /\ loc.op = "writer_to" => tx_sent[Len(tx_sent)].dest = loc.dest
        ELSE /\ CommitOps(trace) = <<>>
             /\ sn_tx_wr = loc.wr0
             /\ tx_wr_chip = loc.wr0

\* a udp_writer_to that wrote 1 byte of the 3 free and committed
C14_Witness ==
    /\ pc = "done"
    /\ loc.op = "writer_to"
    /\ ret.status = "Ok"
    /\ ~writer.abort
    /\ WriterRemain(writer) = 2
    /\ TxWritten(trace) = 1
    /\ sn_tx_wr = writer.ptr

\* the register protocol of udp_bind with the port it was given: the writes
\* and commands, and the status that ended each loop
BindProtocol ==
    << <<"set_sn_cr", "Close">>, <<"sn_sr", "Closed">>,
       <<"set_sn_port", loc.port>>, <<"set_sn_mr", "Udp">>,
       <<"set_sn_cr", "Open">>, <<"sn_sr", "Udp">> >>

\* C15: what udp_bind has done so far is always the beginning of: Close;
\* status Closed observed; port written; mode written as UDP; Open; status
\* Udp observed.  So neither port nor mode is written nor Open issued before
\* Closed was observed, and udp_bind returns Ok only with the whole protocol
\* done, the status Udp observed and Sn_PORT holding the port requested.
C15_BindProtocol ==
    loc.op = "bind" =>
        /\ Len(trace) <= Len(BindProtocol)
        /\ trace = Prefix(BindProtocol, Len(trace))
        /\ (pc = "done" /\ ret.status # "Other") =>
              /\ ret.status = "Ok"
              /\ trace = BindProtocol
              /\ sock.port = loc.port
              /\ sock.mr = "Udp"
              /\ sock.sr = "Udp"

\* a udp_bind to port 8081 returned Ok
C15_Witness ==
    /\ pc = "done"
    /\ loc.op = "bind"
    /\ ret.status = "Ok"
    /\ loc.port = 8081
    /\ sock.port = 8081

\* a loop of udp_bind is left, in this step, by the status it waits for or
\* by a transport error, not otherwise
BindLoopExit ==
    /\ pc = "bind_closed" /\ pc' # pc =>
          failed' \/ (sock.sr = "Closed" /\ pc' = "bind_port")
    /\ pc = "bind_opened" /\ pc' # pc =>
          failed' \/ (sock.sr = "Udp" /\ pc' = "done" /\ ret'.status = "Ok")

\* C16: with a chip that carries out the commands it is given (after Close
\* the status comes to read Closed, after Open under UDP mode Udp), every
\* udp_bind comes to an end; a failed transport access ends it at once; and
\* nothing else ends its loops: there is no timeout, a loop is left only
\* when the status awaited is read or the transport fails.
C16_BindTerminates ==
    /\ (pc \in BindPcs) ~> (pc = "done")
    /\ [](failed => pc = "done" /\ ret.status = "Other")
    /\ [][BindLoopExit]_vars

\* udp_bind has read Sn_SR MaxPolls times in vain after Open, the command
\* still to be carried out
C16_Witness ==
    /\ pc = "bind_opened"
    /\ loc.polls = MaxPolls
    /\ sock.cr = "Open"
    /\ sock.sr = "Closed"

\* C17: in every call (udp_bind, the receives, the peeks, the sends, the
\* scoped reader and writer at entry and exit), a register access that the
\* transport fails ends the call at once with the transport's error, neither
\* WouldBlock nor Ok; no call reports a transport error that did not happen;
\* and after the failure the call makes no further access: registers,
\* buffers and the call's record of writes stay as they are.
C17_TransportError ==
    /\ [](failed => pc = "done" /\ ret.status = "Other" /\ ret.op = loc.op)
    /\ [](ret.status = "Other" => failed)
    /\ [][failed => UNCHANGED <<hw, trace, pc, ret>>]_vars

\* the Send command of a udp_send failed, after the buffer and Sn_TX_WR were
\* written
C17_Witness ==
    /\ failed
    /\ pc = "done"
    /\ loc.op = "send"
    /\ ret.at = "send_cr"
    /\ Len(trace) = 2
    /\ sn_tx_wr # tx_wr_chip

\* the pointer register a command goes with
PointerOf(cmd) == IF cmd = "Recv" THEN "set_sn_rx_rd" ELSE "set_sn_tx_wr"

\* C20: in every call, a Recv command comes right after a write of Sn_RX_RD
\* and a Send command right after a write of Sn_TX_WR, so no call issues
\* Recv or Send without having written the pointer first; and in
\* udp_send_to, udp_send_to_if_free and udp_writer_to the destination given
\* is written before the Send command.
C20_PointerBeforeCommand ==
    \A i \in 1 .. Len(trace) :
        (trace[i][1] = "set_sn_cr" /\ trace[i][2] \in {"Recv", "Send"}) =>
            /\ i > 1
            /\ trace[i - 1][1] = PointerOf(trace[i][2])
            /\ loc.op \in ToOps =>
                  \E j \in 1 .. i - 1 : trace[j] = <<"set_sn_dest", loc.dest>>

\* a udp_send_to_if_free that wrote destination, buffer and pointer and then
\* issued Send
C20_Witness ==
    /\ pc = "done"
    /\ loc.op = "send_to_if_free"
    /\ ret.status = "Ok"
    /\ Len(trace) = 4
    /\ trace[4] = <<"set_sn_cr", "Send">>

\* bytes between head_ptr and ptr of a writer
WriterPosition(w) == WrappingSub(w.ptr, w.head_ptr)

\* bytes between head_ptr and tail_ptr of a writer
WriterLen(w) == WrappingSub(w.tail_ptr, w.head_ptr)

\* n bytes from address ptr on of the TX buffer holding mem
TxBufOf(mem, ptr, n) ==
    [ i \in 1 .. n |->
        LET off == WrappingSub(WrappingAdd(ptr, i - 1), tx_base)
        IN  IF off < Len(mem) THEN mem[off + 1] ELSE 0 ]

\* an operation of a scope leaves head_ptr and tail_ptr as they were; a read
\* takes min(buffer length, remaining) bytes, those at ptr, and moves ptr
\* past them; a write puts that many bytes of its buffer at ptr and moves ptr
\* past them
CursorStep ==
    /\ reader'.head_ptr = reader.head_ptr
    /\ reader'.tail_ptr = reader.tail_ptr
    /\ writer'.head_ptr = writer.head_ptr
    /\ writer'.tail_ptr = writer.tail_ptr
    /\ ret'.op = "read" =>
          LET k == Min(ret'.len, Remain(reader))
          IN  /\ ret'.status = "Ok"
              /\ ret'.n = k
              /\ ret'.data = SubSeq(reader.view, StreamPosition(reader) + 1,
                                    StreamPosition(reader) + k)
              /\ reader'.ptr = (reader.ptr + k) % U16Mod
    /\ ret'.op = "write" =>
          LET k == Min(ret'.len, WriterRemain(writer))
          IN  /\ ret'.status = "Ok"
              /\ ret'.n = k
              /\ writer'.ptr = (writer.ptr + k) % U16Mod
              /\ TxBufOf(tx_mem', writer.ptr, k) = SubSeq(CallerData(ret'.len), 1, k)
              /\ k = 0 => tx_mem' = tx_mem

\* C18: whatever reads, exact reads, seeks and rewinds a reader scope and
\* whatever writes and exact writes a writer scope has gone through, failed
\* ones included, ptr is no farther from head_ptr than tail_ptr is (wrapping
\* distances); head_ptr and tail_ptr are what they were when the scope was
\* made; and read and write transfer exactly min(requested, remaining) bytes.
C18_CursorInvariant ==
    /\ [](StreamPosition(reader) <= StreamLen(reader))
    /\ [](WriterPosition(writer) <= WriterLen(writer))
    /\ [](StreamLen(reader) = rx_dgrams[1].len /\ WriterLen(writer) = sn_tx_fsr)
    /\ [][CursorStep]_vars

\* a read into 3 bytes that took the last byte of a scope lying across the
\* wrap of the pointer
C18_Witness ==
    /\ ret.op = "read"
    /\ ret.len = 3
    /\ ret.n = 1
    /\ reader.head_ptr = U16Max
    /\ StreamLen(reader) = 2
    /\ Remain(reader) = 0

\* the position a seek asks for, from the scope as it is before the seek
Sought ==
    CASE ret'.at = "Start" -> ret'.len
      [] ret'.at = "End" -> StreamLen(reader) + ret'.len
      [] OTHER -> StreamPosition(reader) + ret'.len

\* the exact operations and seek do all or nothing
ExactStep ==
    /\ ret'.op = "read_exact" =>
          IF Remain(reader) < ret'.len
          THEN /\ ret'.status = "Truncated"
               /\ reader' = reader
          ELSE /\ ret'.status = "Ok"
               /\ ret'.n = ret'.len
               /\ StreamPosition(reader') = StreamPosition(reader) + ret'.len
    /\ ret'.op = "write_all" =>
          IF WriterRemain(writer) < ret'.len
          THEN /\ ret'.status = "OutOfMemory"
               /\ writer' = writer
               /\ tx_mem' = tx_mem
               /\ trace' = trace
          ELSE /\ ret'.status = "Ok"
               /\ WriterPosition(writer') = WriterPosition(writer) + ret'.len
               /\ TxBufOf(tx_mem', writer.ptr, ret'.len) = CallerData(ret'.len)
    /\ ret'.op = "seek" =>
          IF Sought < 0 \/ Sought > StreamLen(reader)
          THEN /\ ret'.status = "SeekErr"
               /\ reader' = reader
          ELSE /\ ret'.status = "Ok"
               /\ StreamPosition(reader') = Sought

\* C19: read_exact into a buffer longer than what remains fails with the
\* short-read error and leaves the reader as it was; write_all of a buffer
\* longer than what remains fails with the out-of-space error, writes
\* nothing and leaves the writer as it was; a seek outside the scope fails
\* and leaves the reader as it was; and each of them, when it succeeds, does
\* all of what was asked.
C19_ExactAllOrNothing == [][ExactStep]_vars

\* a read_exact into 2 bytes failed with 1 byte remaining of 2
C19_Witness ==
    /\ ret.op = "read_exact"
    /\ ret.status = "Truncated"
    /\ ret.len = 2
    /\ StreamLen(reader) = 2
    /\ StreamPosition(reader) = 1

\* the bytes from address a up to address b, going up and past 0xFFFF to 0
Distance(a, b) == IF b >= a THEN b - a ELSE b + U16Mod - a

\* C21: pointers are 16-bit and stay right across the wrap: the scope of
\* udp_reader begins at Sn_RX_RD + 8 mod 2^16 and is min(header.len,
\* Sn_RX_RSR - 8) bytes long, the scope of udp_writer begins at Sn_TX_WR and
\* is Sn_TX_FSR bytes long, also where tail_ptr is numerically below head_ptr;
\* a udp_recv_from that committed has set Sn_RX_RD to the old Sn_RX_RD + 8 +
\* header.len mod 2^16, and its 8 + header.len is no more than the Sn_RX_RSR
\* it read, so no more than 65535.
C21_Wraparound ==
    /\ (loc.op = "reader" /\ reader.open) =>
          /\ reader.head_ptr \in 0 .. U16Max
          /\ reader.tail_ptr \in 0 .. U16Max
          /\ Distance(loc.rd0, reader.head_ptr) = HeaderLen
          /\ Distance(reader.head_ptr, reader.tail_ptr)
                = Min(loc.header.len, loc.avail - HeaderLen)
    /\ (loc.op \in {"writer", "writer_to"} /\ writer.open) =>
          /\ writer.head_ptr = loc.wr0
          /\ writer.tail_ptr \in 0 .. U16Max
          /\ Distance(writer.head_ptr, writer.tail_ptr) = loc.fsr
    /\ (pc = "done" /\ loc.op = "recv" /\ ret.status = "Ok") =>
          /\ sn_rx_rd \in 0 .. U16Max
          /\ Distance(loc.rd0, sn_rx_rd) = HeaderLen + loc.header.len
          /\ HeaderLen + loc.header.len <= loc.avail
          /\ loc.avail <= U16Max

\* a reader scope of 2 bytes whose second byte lies at address 0
C21_Witness ==
    /\ loc.op = "reader"
    /\ reader.open
    /\ reader.head_ptr = U16Max
    /\ reader.tail_ptr = 1
    /\ reader.tail_ptr < reader.head_ptr

\* C22 as claimed: whatever receive operations have run and whatever has
\* arrived, Sn_RX_RD is the address of the header of some datagram delivered
\* or the end of the data delivered, never an address inside a header or a
\* payload.
C22_FramingInSync ==
    \E k \in 1 .. Len(rx_dgrams) + 1 :
        sn_rx_rd = WrappingAdd(rx_base, DgramStart(k))

\* a send call has returned Ok and its data fit into the Sn_TX_FSR it read
SentFitting ==
    /\ pc = "done"
    /\ loc.op \in SendOps \cup SendIfFreeOps
    /\ ret.status = "Ok"
    /\ loc.buflen <= loc.fsr

\* C23 as claimed: whenever the data fit (buf.len() <= Sn_TX_FSR, the empty
\* buffer included), udp_send and udp_send_if_free have both written buf at
\* Sn_TX_WR, moved Sn_TX_WR by buf.len(), issued Send, and returned buf.len().
C23_SendsAgree ==
    SentFitting =>
        /\ trace = DestWrite \o SendWrites(loc.buflen)
        /\ ret.n = loc.buflen

\* C23: for 1 <= buf.len() <= Sn_TX_FSR, udp_send and udp_send_if_free have
\* both written buf at Sn_TX_WR, moved Sn_TX_WR by buf.len(), issued Send and
\* returned buf.len(); for the empty buffer both return 0, udp_send having
\* written nothing and issued no Send, udp_send_if_free having written the
\* empty buffer, rewritten Sn_TX_WR with its value and issued Send.
C23_SendsAgreeNonEmpty ==
    SentFitting =>
        /\ ret.n = loc.buflen
        /\ trace = DestWrite \o
                     (IF loc.buflen = 0 /\ loc.op \in SendOps
                      THEN <<>>
                      ELSE SendWrites(loc.buflen))

\* a udp_send_if_free of the empty buffer that issued Send
C23_Witness ==
    /\ SentFitting
    /\ loc.op = "send_if_free"
    /\ loc.buflen = 0
    /\ trace = SendWrites(0)
    /\ ret.n = 0

\* the address of the header of the k-th datagram delivered by the chip; with
\* k one more than their number, the end of the data
DgramAt(k) == WrappingAdd(rx_base, DgramStart(k))

\* C24: with the chip appending datagrams between any two register accesses,
\* repeated udp_recv_from calls hand the datagrams out in the order of their
\* arrival, each once and none skipped: Sn_RX_RD stands at the oldest datagram
\* not handed out (or at the end of the data) and moves only from one datagram
\* to the next, within a udp_recv_from; a call that returns Ok returns origin
\* and payload prefix of the datagram Sn_RX_RD stood at and leaves Sn_RX_RD at
\* the next; a call that returns WouldBlock has written no register, so
\* Sn_RX_RD and the chip's read pointer are where they were and Sn_RX_RSR has
\* not shrunk.
C24_InOrder ==
    /\ [](\E k \in 1 .. Len(rx_dgrams) + 1 : sn_rx_rd = DgramAt(k))
    /\ [][sn_rx_rd' # sn_rx_rd =>
            /\ loc.op = "recv"
            /\ \E k \in 1 .. Len(rx_dgrams) :
                  /\ sn_rx_rd = DgramAt(k)
                  /\ sn_rx_rd' = DgramAt(k + 1)]_vars
    /\ []((pc = "done" /\ loc.op = "recv" /\ ret.status = "Ok") =>
            \E k \in 1 .. Len(rx_dgrams) :
                /\ loc.rd0 = DgramAt(k)
                /\ sn_rx_rd = DgramAt(k + 1)
                /\ rx_rd_chip = sn_rx_rd
                /\ ret.origin = rx_dgrams[k].origin
                /\ ret.data = Prefix(rx_dgrams[k].data, loc.buflen)
                /\ ret.n = Len(ret.data))
    /\ []((pc = "done" /\ loc.op = "recv" /\ ret.status = "WouldBlock") =>
            /\ trace = <<>>
            /\ sn_rx_rd = loc.rd0
            /\ rx_rd_chip = loc.rd0
            /\ sn_rx_rsr >= loc.avail)

\* the second call that returned Ok has returned the second datagram, of
\* another sender than the first, and left Sn_RX_RD at the end of the data
C24_Witness ==
    /\ pc = "done"
    /\ loc.op = "recv"
    /\ ret.status = "Ok"
    /\ Len(rx_dgrams) = 2
    /\ rx_dgrams[1].origin # rx_dgrams[2].origin
    /\ rx_dgrams[1].len = 0
    /\ loc.rd0 = DgramAt(2)
    /\ ret.origin = rx_dgrams[2].origin
    /\ ret.n = 2
    /\ sn_rx_rd = DgramAt(3)

====
